---- MODULE Spec2Model ----
(***************************************************************************)
(* Risk-managed trade lifecycle of the R_25 trading bot.                   *)
(*                                                                         *)
(* Part I models the multiplier bot that is fully present in the source:   *)
(*   RiskManager (risk_manager.py), TradeEngine.open_trade / monitor_trade *)
(*   / execute_trade (trade_engine.py) and TradingBot.trading_cycle        *)
(*   (main.py).  Money is counted in whole units, time in clock ticks; the *)
(*   calendar date is derived from the clock.                              *)
(*   Spec runs NumProcs trading cycles against one ledger; SpecLedger      *)
(*   calls the ledger's public methods directly, in any order; SpecSeq is  *)
(*   the single trading loop of TradingBot.run; SpecCancel follows one     *)
(*   trade through the cancellation window of the scalping mode.           *)
(*   SpecSettle follows one Rise/Fall contract from its purchase through   *)
(*   RFTradeEngine.wait_for_result (rf_trade_engine.py) to the close that  *)
(*   the six-argument rf_bot._process_symbol of the source tree records.   *)
(*   SpecStop is SpecSettle with the event loop's fairness.                *)
(*   SpecMonitor follows one committed trade through Phase 2 of            *)
(*   TradeEngine.monitor_trade with RiskManager.should_close_trade.        *)
(*   SpecAccounts runs rf_bot.run and rf_bot.stop for several accounts in  *)
(*   one process.                                                          *)
(*   SpecOpen follows TradeEngine.open_trade and send_request against a    *)
(*   broker that executes every buy request it accepts.                    *)
(*   SpecSell follows RFTradeEngine.wait_for_result with a stake through   *)
(*   _sell_with_retry and _send on the socket of the subscription.         *)
(* Part II models the Rise/Fall lifecycle with its Trade Lock, halt flag   *)
(*   and Watchdog (risefallbot.rf_risk_manager and the nine-argument       *)
(*   rf_bot._process_symbol), whose code is not in the source tree: it is  *)
(*   modelled from the specification and from the tests under src/tests.   *)
(*   SpecRF runs NumProcs lifecycles, the watchdog and the operator.       *)
(*   SpecTrail follows the multi-tier trailing stop of one position, also  *)
(*   modelled from the specification and the tests.                        *)
(***************************************************************************)
EXTENDS Integers, Sequences, FiniteSets, TLC

\* ------------------------------------------------------------- bounds ----
NumProcs == 2          \* concurrent lifecycle coroutines on one ledger
MaxContracts == 3      \* contracts the broker issues in one run
MaxTime == 3           \* last clock tick
DayLen == 3            \* clock ticks per calendar day
MaxTradesPerDay == 3   \* config.MAX_TRADES_PER_DAY, scaled
MaxDailyLoss == 3      \* config.MAX_DAILY_LOSS, scaled to money units
CooldownTicks == 1     \* config.COOLDOWN_SECONDS, scaled to ticks
MaxCalls == 4          \* calls made by a direct caller in one run
PendingTimeoutTicks == 1  \* rf_config.RF_PENDING_TIMEOUT_SECONDS, scaled to ticks
MinWaitTicks == 2      \* should_cancel_trade's MIN_WAIT_TIME (240 s), in check intervals
WindowTicks == 4       \* config.CANCELLATION_DURATION (300 s), in check intervals
MaxElapsed == 5        \* check intervals a position is followed for
MaxStake == 2          \* largest stake of a Rise/Fall signal, in money units
MaxPrice == 1          \* largest buy_price / sell_price in a broker message
MaxMsgs == 2           \* messages wait_for_result passes over in one wait
MaxDurationTicks == 2  \* config.MAX_TRADE_DURATION, in monitor intervals
MaxDbRetries == 2      \* rf_config.RF_DB_WRITE_MAX_RETRIES
MaxTiers == 2          \* tiers of a trailing-stop configuration
NumAccounts == 2       \* accounts served by one process
MaxRuns == 2           \* calls of rf_bot.run() an account can have in flight
MaxPct == 4            \* largest profit percentage and tier trigger
BreakevenTriggerPct == 2  \* profit percentage that arms the breakeven lock
MaxInbox == 2           \* stream updates waiting in the socket at once
MaxTriggers == 2        \* threshold triggers of one contract
MaxTrail == 3          \* largest trail_pct of a tier

\* -------------------------------------------------- program constants ----
max_consecutive_losses == 3
max_attempts == 3       \* _sell_with_retry(max_attempts=3)
max_retries == 3
NoTime == -1           \* last_trade_time = None
RF_MAX_CONCURRENT_TOTAL == 1

Procs == 1..NumProcs
Contracts == 1..MaxContracts
Profits == {-1, 0, 1}
NoContract == 0

VARIABLES
  now,        \* datetime.now(), in ticks
  rm,         \* the RiskManager instance (one account's ledger)
  next_cid,   \* the broker's next contract id
  pc,         \* per coroutine: position in trading_cycle / execute_trade
  cid,        \* per coroutine: contract bought by open_trade
  attempt,    \* per coroutine: open_trade's loop variable
  since_win,  \* history: losing closes ("L") and daily resets ("R") since
              \* the last winning close
  ncalls,     \* direct caller: number of ledger calls made
  last_call,  \* direct caller: the last ledger call, [op, contract]
  rf,         \* the RiseFallRiskManager: Trade Lock, active_trades, halt flag
  rf_next_cid,\* Rise/Fall: the broker's next contract id
  rf_pc,      \* Rise/Fall, per coroutine: position in _process_symbol
  rf_cid,     \* Rise/Fall, per coroutine: contract bought
  rf_owner,   \* history: the coroutine whose acquisition holds the lock
  rf_acq,     \* history, per coroutine: its current cycle acquired the lock
  rf_rel,     \* history, per coroutine: releases of that acquisition
  rf_last_release, \* history: who released the lock last
  rf_last_clear,   \* history: who cleared the halt flag last
  rf_refused, \* history, per lifecycle: its acquire found the lock held
  rf_db,      \* per lifecycle: the outcome of its write of the closed trade,
              \* with the save_trade calls that failed before one succeeded
  cp_pc,      \* two-phase trade: position in open_trade / monitor_trade
  cp_in_phase,\* TradeEngine.in_cancellation_phase
  cp_elapsed, \* check intervals since cancellation_start_time
  cp_phase,   \* the ledger record's 'phase'
  cp_limits,  \* the broker holds the Phase-2 TP/SL of the contract
  cp_last,    \* history: the last cancel decision taken on a status read
  ws_pc,      \* Rise/Fall settlement: position in _process_symbol steps 4-6
  ws_tracked, \* the contract_id handed to wait_for_result
  ws_stake,   \* the stake of the signal
  ws_arg,     \* the stake argument of wait_for_result (0: not passed)
  ws_sell_reason, \* wait_for_result's sell_reason; already_sold iff not "none"
  ws_seen,    \* messages wait_for_result has passed over, counted up to MaxMsgs
  ws_parity,  \* history: parity of the number of messages passed over
  ws_running, \* rf_bot._running
  ws_result,  \* what wait_for_result returned
  ws_closed,  \* the record handed to record_trade_closed
  mt_pc,      \* monitor_trade, Phase 2: position in the loop
  mt_rm,      \* the RiskManager handed to monitor_trade
  mt_elapsed, \* monitor intervals since start_time
  mt_last,    \* history: the last status should_close_trade was asked about
  mt_result,  \* how monitor_trade ended
  mt_ping,    \* parity of the keepalive pings the broker has answered
  ts_pc,      \* trailing stop: "none", "open" or "closed"
  ts_tiers,   \* the configured (trigger_pct, trail_pct) tiers
  ts_trade,   \* the position's trailing-stop fields
  ts_crossed, \* history: the position moved from one tier to a higher one
  ts_breakeven, \* the position's breakeven_activated
  ts_profit,  \* history: the profit percentage of the last tick
  rfb_running, \* rf_bot._running, the module-level flag
  rfb_pc,     \* per account and call of run(): where the call is
  rfb_actor,  \* history: the account whose operation was the last step
  ot_pc,      \* open_trade: where the invocation is
  ot_attempt, \* open_trade's loop variable
  ot_bought,  \* history: contracts the broker sold to this invocation
  ot_reply,   \* the broker's answer to the buy request in flight
  ot_resent,  \* send_request has reconnected and sent the request again
  ot_calls,   \* invocations of open_trade so far
  sl_pc,      \* wait_for_result with its sells: where the coroutine is
  sl_attempt, \* _sell_with_retry's loop variable
  sl_inbox,   \* messages the broker has sent that recv() has not returned
  sl_req_id,  \* _req_id
  sl_broker_sold,  \* the broker has accepted a sell of the contract
  sl_already_sold, \* wait_for_result's already_sold
  sl_resp,    \* history: the last request of _send and what it returned
  sl_sent,    \* history: sell requests of the current trigger
  sl_late,    \* history: a sell request was sent after an accepted one
  sl_triggers \* history: threshold triggers so far

mvars == <<now, rm, next_cid, pc, cid, attempt, since_win>>
lvars == <<ncalls, last_call>>
rvars == <<rf, rf_next_cid, rf_pc, rf_cid, rf_owner, rf_acq, rf_rel,
           rf_last_release, rf_last_clear, rf_db, rf_refused>>
cvars == <<cp_pc, cp_in_phase, cp_elapsed, cp_phase, cp_limits, cp_last>>
wvars == <<ws_pc, ws_tracked, ws_stake, ws_arg, ws_sell_reason, ws_seen,
           ws_parity, ws_running, ws_result, ws_closed>>
tvars == <<mt_pc, mt_rm, mt_elapsed, mt_last, mt_result, mt_ping>>
svars == <<ts_pc, ts_tiers, ts_trade, ts_crossed, ts_breakeven, ts_profit>>
avars == <<rfb_running, rfb_pc, rfb_actor>>
ovars == <<ot_pc, ot_attempt, ot_bought, ot_reply, ot_resent, ot_calls>>
qvars == <<sl_pc, sl_attempt, sl_inbox, sl_req_id, sl_broker_sold,
           sl_already_sold, sl_resp, sl_sent, sl_late, sl_triggers>>
vars == <<mvars, lvars, rvars, cvars, wvars, tvars, svars, avars, ovars, qvars>>

\* ---------------------------------------------------- RiskManager ----

Date(t) == t \div DayLen

RiskManagerInit ==
  [ trades_today       |-> <<>>,
    last_trade_time    |-> NoTime,
    daily_pnl          |-> 0,
    current_date       |-> Date(0),
    active_trade       |-> {},      \* Optional[Dict]: {} is None, {c} a record
    has_active_trade   |-> FALSE,
    consecutive_losses |-> 0 ]

OpenPositions(r) == IF r.has_active_trade THEN r.active_trade ELSE {}

ResetDailyStats(r, t) ==
  IF Date(t) # r.current_date
  THEN [r EXCEPT !.current_date = Date(t),
                 !.trades_today = <<>>,
                 !.daily_pnl = 0,
                 !.last_trade_time = NoTime,
                 !.active_trade = {},
                 !.has_active_trade = FALSE,
                 !.consecutive_losses = 0]
  ELSE r

CanTradeReasonLossCapFirst(r, t) ==
  IF r.has_active_trade THEN "active_trade"
  ELSE IF r.daily_pnl <= -MaxDailyLoss THEN "daily_loss_limit"
  ELSE IF r.consecutive_losses >= max_consecutive_losses THEN "circuit_breaker"
  ELSE IF Len(r.trades_today) >= MaxTradesPerDay THEN "daily_trade_limit"
  ELSE IF r.last_trade_time # NoTime /\ t - r.last_trade_time < CooldownTicks
       THEN "cooldown"
  ELSE "OK"

CanTradeReasonNoBreaker(r, t) ==
  IF r.has_active_trade THEN "active_trade"
  ELSE IF Len(r.trades_today) >= MaxTradesPerDay THEN "daily_trade_limit"
  ELSE IF r.daily_pnl <= -MaxDailyLoss THEN "daily_loss_limit"
  ELSE IF r.last_trade_time # NoTime /\ t - r.last_trade_time < CooldownTicks
       THEN "cooldown"
  ELSE "OK"

CanTradeReasonCooldownInclusive(r, t) ==
  IF r.has_active_trade THEN "active_trade"
  ELSE IF r.consecutive_losses >= max_consecutive_losses THEN "circuit_breaker"
  ELSE IF Len(r.trades_today) >= MaxTradesPerDay THEN "daily_trade_limit"
  ELSE IF r.daily_pnl <= -MaxDailyLoss THEN "daily_loss_limit"
  ELSE IF r.last_trade_time # NoTime /\ t - r.last_trade_time <= CooldownTicks
       THEN "cooldown"
  ELSE "OK"

\* can_trade's checks, on the ledger as reset_daily_stats left it
CanTradeReason(r, t) ==
  IF r.has_active_trade THEN "active_trade"
  ELSE IF r.consecutive_losses >= max_consecutive_losses THEN "circuit_breaker"
  ELSE IF Len(r.trades_today) >= MaxTradesPerDay THEN "daily_trade_limit"
  ELSE IF r.daily_pnl <= -MaxDailyLoss THEN "daily_loss_limit"
  ELSE IF r.last_trade_time # NoTime /\ t - r.last_trade_time < CooldownTicks
       THEN "cooldown"
  ELSE "OK"

CanTradeLimitsBeforeReset(r, t) == CanTradeReason(r, t) = "OK"

\* can_trade: reset_daily_stats() first, then the checks
CanTrade(r, t) == CanTradeReason(ResetDailyStats(r, t), t) = "OK"

TradeRecord(c) == [contract_id |-> c, status |-> "open", pnl |-> 0, has_pnl |-> FALSE]

RecordTradeOpenKeepsOthers(r, c, t) ==
  [r EXCEPT !.trades_today = Append(@, TradeRecord(c)),
            !.last_trade_time = t,
            !.active_trade = @ \cup {c},
            !.has_active_trade = TRUE]

RecordTradeOpen(r, c, t) ==
  [r EXCEPT !.trades_today = Append(@, TradeRecord(c)),
            !.last_trade_time = t,
            !.active_trade = {c},
            !.has_active_trade = TRUE]

\* the first record of trades_today with this contract_id, 0 when none
FindTrade(r, c) ==
  LET hits == {i \in 1..Len(r.trades_today) : r.trades_today[i].contract_id = c}
  IN IF hits = {} THEN 0 ELSE CHOOSE i \in hits : \A j \in hits : i <= j

RecordTradeCloseKeepsStreak(r, c, pnl, status) ==
  LET i == FindTrade(r, c)
      tt == IF i = 0 THEN r.trades_today
            ELSE [r.trades_today EXCEPT ![i] =
                    [@ EXCEPT !.status = status, !.pnl = pnl, !.has_pnl = TRUE]]
      mine == r.active_trade = {c}
  IN [r EXCEPT !.trades_today = tt,
               !.active_trade = IF mine THEN {} ELSE @,
               !.has_active_trade = IF mine THEN FALSE ELSE @,
               !.daily_pnl = @ + pnl,
               !.consecutive_losses = IF pnl < 0 THEN @ + 1 ELSE @]

RecordTradeClose(r, c, pnl, status) ==
  LET i == FindTrade(r, c)
      tt == IF i = 0 THEN r.trades_today
            ELSE [r.trades_today EXCEPT ![i] =
                    [@ EXCEPT !.status = status, !.pnl = pnl, !.has_pnl = TRUE]]
      mine == r.active_trade = {c}
  IN [r EXCEPT !.trades_today = tt,
               !.active_trade = IF mine THEN {} ELSE @,
               !.has_active_trade = IF mine THEN FALSE ELSE @,
               !.daily_pnl = @ + pnl,
               !.consecutive_losses =
                  IF pnl > 0 THEN 0 ELSE IF pnl < 0 THEN @ + 1 ELSE @]

RecordTradeCancelled(r, c) ==
  LET i == FindTrade(r, c)
      tt == IF i = 0 THEN r.trades_today
            ELSE [r.trades_today EXCEPT ![i] = [@ EXCEPT !.status = "cancelled"]]
      mine == r.active_trade = {c}
  IN [r EXCEPT !.trades_today = tt,
               !.active_trade = IF mine THEN {} ELSE @,
               !.has_active_trade = IF mine THEN FALSE ELSE @]

\* execute_trade's "unlocking trade slot" on a failure
UnlockSlot(r) == [r EXCEPT !.active_trade = {}, !.has_active_trade = FALSE]

\* get_trade_status: the status string of a contract reported sold
StatusOf(profit) == IF profit > 0 THEN "won" ELSE IF profit < 0 THEN "lost" ELSE "sold"

\* -------------------------------------------- RiseFallRiskManager ----
\* Trade Lock, active_trades and halt flag of the Rise/Fall bot.

NoProc == 0

RiseFallRiskManagerInit ==
  [ locked      |-> FALSE,     \* trade_mutex.locked()
    acquired_at |-> NoTime,    \* _pending_entry_timestamp
    active      |-> {},        \* active_trades, by contract_id
    halted      |-> FALSE,
    halt_reason |-> "none" ]

\* the entry gate: a halted ledger and a full slot deny
RfCanTrade(r) == ~r.halted /\ Cardinality(r.active) < RF_MAX_CONCURRENT_TOTAL

ReleaseTradeLockKeepsIt(r) == r

\* release_trade_lock: idempotent, a free lock stays free
ReleaseTradeLock(r) == [r EXCEPT !.locked = FALSE, !.acquired_at = NoTime]

AcquireWithoutVerify(r, t) ==
  IF r.locked THEN r ELSE [r EXCEPT !.locked = TRUE, !.acquired_at = t]

\* a held lock is stamped again by the caller that finds it held
AcquireTradeLockRestamps(r, t) ==
  IF r.locked THEN [r EXCEPT !.acquired_at = t]
  ELSE LET got == [r EXCEPT !.locked = TRUE, !.acquired_at = t]
       IN IF got.active # {} THEN ReleaseTradeLock(got) ELSE got

\* acquire_trade_lock: non-blocking; acquire, then verify active_trades
AcquireTradeLock(r, t) ==
  IF r.locked THEN r
  ELSE LET got == [r EXCEPT !.locked = TRUE, !.acquired_at = t]
       IN IF got.active # {} THEN ReleaseTradeLock(got) ELSE got

Halt(r, reason) == [r EXCEPT !.halted = TRUE, !.halt_reason = reason]

ClearHalt(r) == [r EXCEPT !.halted = FALSE, !.halt_reason = "none"]

\* every purchase is tracked, whatever is tracked already
RfRecordTradeOpenNoGuard(r, c) == [r EXCEPT !.active = @ \cup {c}]

\* record_trade_open with its duplicate guard
RfRecordTradeOpen(r, c) ==
  IF c \in r.active \/ Cardinality(r.active) >= RF_MAX_CONCURRENT_TOTAL
  THEN Halt(ReleaseTradeLock(r), "duplicate")
  ELSE [r EXCEPT !.active = @ \cup {c}]

RfRecordTradeClosedReleases(r, c) ==
  ReleaseTradeLock([r EXCEPT !.active = @ \ {c}])

\* record_trade_closed: the trade leaves active_trades, the lock stays held
RfRecordTradeClosed(r, c) == [r EXCEPT !.active = @ \ {c}]

WatchdogDue(r, t) ==
  /\ r.locked
  /\ r.active = {}
  /\ r.acquired_at # NoTime
  /\ t - r.acquired_at > PendingTimeoutTicks

WatchdogKeepsHalt(r, t) == IF WatchdogDue(r, t) THEN ReleaseTradeLock(r) ELSE r

\* the run loop's watchdog: a stuck lock is released and the halt cleared
WatchdogCheck(r, t) ==
  IF WatchdogDue(r, t)
  THEN LET r2 == ReleaseTradeLock(r)
       IN IF r2.halted THEN ClearHalt(r2) ELSE r2
  ELSE r

\* halt reasons the lifecycle's cleanup treats as transient
TransientHalt(reason) == reason = "lifecycle_error"

CleanupClearsAnyHalt(r) ==
  LET r2 == ReleaseTradeLock(r)
  IN IF r2.halted THEN ClearHalt(r2) ELSE r2

\* _process_symbol's finally block: release the lock, clear a transient halt
LifecycleCleanup(r) ==
  LET r2 == ReleaseTradeLock(r)
  IN IF r2.halted /\ TransientHalt(r2.halt_reason) THEN ClearHalt(r2) ELSE r2

\* --------------------------------------- multiplier bot lifecycle ----

NoCall == [op |-> "none", contract |-> NoContract]

NoDecision == [elapsed |-> NoTime, profit |-> 0, cancel |-> FALSE]

\* wait_for_result has not returned
NoResult == [kind |-> "none", why |-> "none", from |-> NoContract,
             is_sold |-> FALSE, is_expired |-> FALSE,
             profit |-> 0, status |-> "none", sell_price |-> 0,
             closure_type |-> "absent"]

Accounts == 1..NumAccounts
Runs == 1..MaxRuns
NoAccount == 0

\* no write of a closed trade has been made
NoWrite == [written |-> FALSE, failed |-> 0, attempts |-> 0,
            success |-> FALSE]

\* a position whose trailing stop has not been activated
\* _send has returned nothing yet
NoResp == [req |-> 0, got |-> [kind |-> "none", req_id |-> 0]]

NoTrail == [trailing_active |-> FALSE, tier |-> 0, peak_profit_pct |-> 0,
            trail_stop_profit_pct |-> 0]

\* should_close_trade has not been asked yet
NoStatus == [evaluated |-> FALSE, profit |-> 0, stagnation |-> FALSE,
             trailing |-> FALSE, breakeven |-> FALSE,
             should_close |-> FALSE, reason |-> "none"]

\* record_trade_closed has not been called
NoClose == [contract_id |-> NoContract, profit |-> 0, status |-> "none",
            closure_type |-> "absent"]

MInit ==
  /\ now = 0
  /\ rm = RiskManagerInit
  /\ next_cid = 1
  /\ pc = [p \in Procs |-> "idle"]
  /\ cid = [p \in Procs |-> NoContract]
  /\ attempt = [p \in Procs |-> 0]
  /\ since_win = <<>>
  /\ ncalls = 0
  /\ last_call = NoCall
  /\ rf = RiseFallRiskManagerInit
  /\ rf_next_cid = 1
  /\ rf_pc = [p \in Procs |-> "idle"]
  /\ rf_cid = [p \in Procs |-> NoContract]
  /\ rf_owner = NoProc
  /\ rf_acq = [p \in Procs |-> FALSE]
  /\ rf_rel = [p \in Procs |-> 0]
  /\ rf_last_release = "none"
  /\ rf_last_clear = "none"
  /\ rf_db = [p \in Procs |-> NoWrite]
  /\ rf_refused = [p \in Procs |-> FALSE]
  /\ cp_pc = "none"
  /\ cp_in_phase = FALSE
  /\ cp_elapsed = 0
  /\ cp_phase = "none"
  /\ cp_limits = FALSE
  /\ cp_last = NoDecision
  /\ ws_pc = "off"
  /\ ws_tracked = NoContract
  /\ ws_stake = 0
  /\ ws_arg = 0
  /\ ws_sell_reason = "none"
  /\ ws_seen = 0
  /\ ws_parity = 0
  /\ ws_running = FALSE
  /\ ws_result = NoResult
  /\ ws_closed = NoClose
  /\ mt_pc = "none"
  /\ mt_rm = RiskManagerInit
  /\ mt_elapsed = 0
  /\ mt_last = NoStatus
  /\ mt_result = "none"
  /\ mt_ping = 0
  /\ ts_pc = "none"
  /\ ts_tiers = <<>>
  /\ ts_trade = NoTrail
  /\ ts_crossed = FALSE
  /\ ts_breakeven = FALSE
  /\ ts_profit = 0
  /\ rfb_running = FALSE
  /\ rfb_pc = [a \in Accounts |-> [k \in Runs |-> "off"]]
  /\ rfb_actor = NoAccount
  /\ ot_pc = "none"
  /\ ot_attempt = 0
  /\ ot_bought = 0
  /\ ot_reply = "none"
  /\ ot_resent = FALSE
  /\ ot_calls = 0
  /\ sl_pc = "idle"
  /\ sl_attempt = 0
  /\ sl_inbox = <<>>
  /\ sl_req_id = 0
  /\ sl_broker_sold = FALSE
  /\ sl_already_sold = FALSE
  /\ sl_resp = NoResp
  /\ sl_sent = 0
  /\ sl_late = FALSE
  /\ sl_triggers = 0

\* the clock advances
Tick ==
  /\ now < MaxTime
  /\ now' = now + 1
  /\ UNCHANGED <<lvars, rvars, cvars, wvars, tvars, svars, avars, ovars, qvars>>
  /\ UNCHANGED <<rm, next_cid, pc, cid, attempt, since_win>>

\* a coroutine between two trading cycles; "open_failed" when the last cycle
\* ended with "Trade execution failed" out of open_trade
Resting(p) == pc[p] \in {"idle", "open_failed"}

GateCheckOpensOnDenial(p) ==
  /\ Resting(p)
  /\ rm' = ResetDailyStats(rm, now)
  /\ since_win' = IF rm' # rm THEN Append(since_win, "R") ELSE since_win
  /\ \E signal \in BOOLEAN :
       pc' = [pc EXCEPT ![p] = IF signal THEN "open" ELSE "idle"]
  /\ UNCHANGED <<lvars, rvars, cvars, wvars, tvars, svars, avars, ovars, qvars>>
  /\ UNCHANGED <<now, next_cid, cid, attempt>>

\* trading_cycle: the risk gate, can_trade(), which first resets a new day;
\* a denial ends the cycle.  Then market data is fetched and analysed: HOLD
\* or invalid parameters end the cycle, a signal goes on to execute_trade
GateCheck(p) ==
  /\ Resting(p)
  /\ rm' = ResetDailyStats(rm, now)
  /\ since_win' = IF rm' # rm THEN Append(since_win, "R") ELSE since_win
  /\ \E signal \in BOOLEAN :
       pc' = [pc EXCEPT ![p] = IF CanTrade(rm, now) /\ signal THEN "open" ELSE "idle"]
  /\ UNCHANGED <<lvars, rvars, cvars, wvars, tvars, svars, avars, ovars, qvars>>
  /\ UNCHANGED <<now, next_cid, cid, attempt>>

OpenExhaustsAfterOne(a) == TRUE

\* open_trade: "if attempt < max_retries - 1: continue", else return None
OpenExhausted(a) == ~(a < max_retries - 1)

\* open_trade: one attempt fails (no proposal, buy refused, or an exception);
\* after the last one open_trade and execute_trade return None
OpenAttemptFails(p) ==
  /\ pc[p] = "open"
  /\ IF OpenExhausted(attempt[p])
     THEN /\ pc' = [pc EXCEPT ![p] = "open_failed"]
          /\ attempt' = [attempt EXCEPT ![p] = 0]
     ELSE /\ attempt' = [attempt EXCEPT ![p] = @ + 1]
          /\ pc' = pc
  /\ UNCHANGED <<lvars, rvars, cvars, wvars, tvars, svars, avars, ovars, qvars>>
  /\ UNCHANGED <<now, rm, next_cid, cid, since_win>>

\* open_trade: the proposal is bought; the broker issues the contract
OpenAttemptBuys(p) ==
  /\ pc[p] = "open"
  /\ next_cid <= MaxContracts
  /\ cid' = [cid EXCEPT ![p] = next_cid]
  /\ next_cid' = next_cid + 1
  /\ attempt' = [attempt EXCEPT ![p] = 0]
  /\ pc' = [pc EXCEPT ![p] = "bought"]
  /\ UNCHANGED <<lvars, rvars, cvars, wvars, tvars, svars, avars, ovars, qvars>>
  /\ UNCHANGED <<now, rm, since_win>>

\* execute_trade: risk_manager.record_trade_open(trade_info)
RecordOpen(p) ==
  /\ pc[p] = "bought"
  /\ rm' = RecordTradeOpen(rm, cid[p], now)
  /\ pc' = [pc EXCEPT ![p] = "monitor"]
  /\ UNCHANGED <<lvars, rvars, cvars, wvars, tvars, svars, avars, ovars, qvars>>
  /\ UNCHANGED <<now, next_cid, cid, attempt, since_win>>

\* monitor_trade returns a final status; trading_cycle records the close
MonitorSettles(p) ==
  /\ pc[p] = "monitor"
  /\ \E profit \in Profits :
       /\ rm' = RecordTradeClose(rm, cid[p], profit, StatusOf(profit))
       /\ since_win' = IF profit > 0 THEN <<>>
                       ELSE IF profit < 0 THEN Append(since_win, "L")
                       ELSE since_win
  /\ pc' = [pc EXCEPT ![p] = "idle"]
  /\ cid' = [cid EXCEPT ![p] = NoContract]
  /\ UNCHANGED <<lvars, rvars, cvars, wvars, tvars, svars, avars, ovars, qvars>>
  /\ UNCHANGED <<now, next_cid, attempt>>

\* monitor_trade returns None (an exception, or no final status could be
\* read); execute_trade unlocks the slot and trading_cycle records nothing
MonitorFails(p) ==
  /\ pc[p] = "monitor"
  /\ rm' = UnlockSlot(rm)
  /\ pc' = [pc EXCEPT ![p] = "idle"]
  /\ cid' = [cid EXCEPT ![p] = NoContract]
  /\ UNCHANGED <<lvars, rvars, cvars, wvars, tvars, svars, avars, ovars, qvars>>
  /\ UNCHANGED <<now, next_cid, attempt, since_win>>

MNext ==
  \/ Tick
  \/ \E p \in Procs : GateCheck(p)
  \/ \E p \in Procs : OpenAttemptFails(p)
  \/ \E p \in Procs : OpenAttemptBuys(p)
  \/ \E p \in Procs : RecordOpen(p)
  \/ \E p \in Procs : MonitorSettles(p)
  \/ \E p \in Procs : MonitorFails(p)

Spec == MInit /\ [][MNext]_vars

\* TradingBot.run: the one trading loop of an account, which awaits each
\* trading_cycle before it starts the next
MainLoop == {1}

SNext ==
  \/ Tick
  \/ \E p \in MainLoop : GateCheck(p)
  \/ \E p \in MainLoop : OpenAttemptFails(p)
  \/ \E p \in MainLoop : OpenAttemptBuys(p)
  \/ \E p \in MainLoop : RecordOpen(p)
  \/ \E p \in MainLoop : MonitorSettles(p)
  \/ \E p \in MainLoop : MonitorFails(p)

SpecSeq == MInit /\ [][SNext]_vars

\* ------------------------------------------- the ledger called directly ----
\* The RiskManager's public methods called in any order by a direct caller,
\* as the unit tests and the module's self-test do.

LedgerCall(op, c, r) ==
  /\ ncalls < MaxCalls
  /\ ncalls' = ncalls + 1
  /\ last_call' = [op |-> op, contract |-> c]
  /\ rm' = r
  /\ UNCHANGED <<now, next_cid, pc, cid, attempt, since_win, rvars, cvars, wvars, tvars, svars, avars, ovars, qvars>>

CallCanTrade == LedgerCall("can_trade", NoContract, ResetDailyStats(rm, now))

CallRecordTradeOpen ==
  \E c \in Contracts :
    LedgerCall("record_trade_open", c, RecordTradeOpen(rm, c, now))

CallRecordTradeClose ==
  \E c \in Contracts, profit \in Profits :
    LedgerCall("record_trade_close", c, RecordTradeClose(rm, c, profit, StatusOf(profit)))

CallRecordTradeCancelled ==
  \E c \in Contracts :
    LedgerCall("record_trade_cancelled", c, RecordTradeCancelled(rm, c))

LNext ==
  \/ Tick
  \/ CallCanTrade
  \/ CallRecordTradeOpen
  \/ CallRecordTradeClose
  \/ CallRecordTradeCancelled

SpecLedger == MInit /\ [][LNext]_vars

\* ------------------------------- two-phase trade: cancellation window ----
\* One trade of the scalping mode with ENABLE_CANCELLATION: open_trade
\* starts the cancellation window, monitor_cancellation_phase follows it
\* every check interval.  Time is counted in check intervals since
\* cancellation_start_time; the times of one loop iteration are those read
\* at its top.

ShouldCancelIgnoresWait(in_phase, time_elapsed, profit) ==
  in_phase /\ profit <= 0

\* should_cancel_trade(time_elapsed, profit)
ShouldCancelTrade(in_phase, time_elapsed, profit) ==
  IF ~in_phase THEN FALSE
  ELSE IF time_elapsed < MinWaitTicks THEN FALSE
  ELSE profit <= 0

\* open_trade buys with cancellation and execute_trade records the open
CpOpen ==
  /\ cp_pc = "none"
  /\ cp_pc' = "phase1"
  /\ cp_in_phase' = TRUE
  /\ cp_elapsed' = 0
  /\ cp_phase' = "cancellation"
  /\ UNCHANGED <<cp_limits, cp_last>>
  /\ UNCHANGED <<mvars, lvars, rvars, wvars, tvars, svars, avars, ovars, qvars>>

\* asyncio.sleep(check_interval): time passes while the trade is monitored
CpSleep ==
  /\ cp_pc \in {"phase1", "phase2"}
  /\ cp_elapsed < MaxElapsed
  /\ cp_elapsed' = cp_elapsed + 1
  /\ UNCHANGED <<cp_pc, cp_in_phase, cp_phase, cp_limits, cp_last>>
  /\ UNCHANGED <<mvars, lvars, rvars, wvars, tvars, svars, avars, ovars, qvars>>

\* monitor_cancellation_phase: time_remaining <= 0; the engine leaves the
\* phase and asks the broker for the Phase-2 limits, which may be refused
CpExpire ==
  /\ cp_pc = "phase1" /\ cp_in_phase
  /\ cp_elapsed >= WindowTicks
  /\ cp_in_phase' = FALSE
  /\ \E applied \in BOOLEAN : cp_limits' = applied
  /\ cp_pc' = "phase2"
  /\ UNCHANGED <<cp_elapsed, cp_phase, cp_last>>
  /\ UNCHANGED <<mvars, lvars, rvars, wvars, tvars, svars, avars, ovars, qvars>>

\* get_trade_status returns None: sleep one check interval and continue
CpPollFails ==
  /\ cp_pc = "phase1" /\ cp_in_phase
  /\ cp_elapsed < WindowTicks
  /\ cp_elapsed' = cp_elapsed + 1
  /\ UNCHANGED <<cp_pc, cp_in_phase, cp_phase, cp_limits, cp_last>>
  /\ UNCHANGED <<mvars, lvars, rvars, wvars, tvars, svars, avars, ovars, qvars>>

\* the status says the contract was sold: the phase ends with 'closed'
CpPollSold ==
  /\ cp_pc = "phase1" /\ cp_in_phase
  /\ cp_elapsed < WindowTicks
  /\ cp_in_phase' = FALSE
  /\ cp_pc' = "closed"
  /\ UNCHANGED <<cp_elapsed, cp_phase, cp_limits, cp_last>>
  /\ UNCHANGED <<mvars, lvars, rvars, wvars, tvars, svars, avars, ovars, qvars>>

\* the status gives the current profit: should_cancel_trade decides, and a
\* cancel request is sent; the broker accepts it or not
CpDecide ==
  /\ cp_pc = "phase1" /\ cp_in_phase
  /\ cp_elapsed < WindowTicks
  /\ \E profit \in Profits, accepted \in BOOLEAN :
       LET cancel == ShouldCancelTrade(cp_in_phase, cp_elapsed, profit)
       IN /\ cp_last' = [elapsed |-> cp_elapsed, profit |-> profit, cancel |-> cancel]
          /\ IF cancel /\ accepted
             THEN cp_in_phase' = FALSE /\ cp_pc' = "cancelled"
             ELSE UNCHANGED <<cp_in_phase, cp_pc>>
  /\ UNCHANGED <<cp_elapsed, cp_phase, cp_limits>>
  /\ UNCHANGED <<mvars, lvars, rvars, wvars, tvars, svars, avars, ovars, qvars>>

\* Phase 2: the committed trade reaches a final status
CpPhase2Ends ==
  /\ cp_pc = "phase2"
  /\ cp_pc' = "closed"
  /\ UNCHANGED <<cp_in_phase, cp_elapsed, cp_phase, cp_limits, cp_last>>
  /\ UNCHANGED <<mvars, lvars, rvars, wvars, tvars, svars, avars, ovars, qvars>>

CNext ==
  \/ CpOpen
  \/ CpSleep
  \/ CpExpire
  \/ CpPollFails
  \/ CpPollSold
  \/ CpDecide
  \/ CpPhase2Ends

SpecCancel == MInit /\ [][CNext]_vars

\* ------------------------------------ monitor_trade, Phase 2 ----
\* One committed trade followed by monitor_trade with the RiskManager that
\* recorded its open.  Time is counted in monitor intervals since
\* start_time.  The profit of a status is in tenths of a money unit, so
\* that the emergency threshold, 0.9 of max_daily_loss, is a whole number.
\* A status also says which of the stagnation, trailing-stop and breakeven
\* conditions of the position hold on this tick; the code reads none of them.

DailyPnls == (1 - MaxDailyLoss)..1
\* the profits a status reports: around the emergency threshold of each
\* daily_pnl, and a gain
ProfitTenths ==
  {-(9 * MaxDailyLoss) - 10 * d + e : d \in DailyPnls, e \in -1..1} \cup {10}

ShouldCloseTradeAtCap(r, current_pnl) ==
  IF r.active_trade = {}
  THEN [should_close |-> FALSE, reason |-> "No active trade"]
  ELSE IF 10 * r.daily_pnl + current_pnl <= -(10 * MaxDailyLoss)
  THEN [should_close |-> TRUE, reason |-> "emergency_daily_loss"]
  ELSE [should_close |-> FALSE, reason |-> "Deriv limit_order active"]

\* should_close_trade(current_pnl, current_price, previous_price)
ShouldCloseTrade(r, current_pnl) ==
  IF r.active_trade = {}
  THEN [should_close |-> FALSE, reason |-> "No active trade"]
  ELSE IF 10 * r.daily_pnl + current_pnl <= -(9 * MaxDailyLoss)
  THEN [should_close |-> TRUE, reason |-> "emergency_daily_loss"]
  ELSE [should_close |-> FALSE, reason |-> "Deriv limit_order active"]

\* execute_trade: record_trade_open, then monitor_trade enters Phase 2
MtStart(c, daily) ==
  /\ mt_pc = "none"
  /\ mt_rm' = [RecordTradeOpen(RiskManagerInit, c, 0) EXCEPT !.daily_pnl = daily]
  /\ mt_pc' = "loop"
  /\ UNCHANGED <<mt_elapsed, mt_last, mt_result, mt_ping>>
  /\ UNCHANGED <<mvars, lvars, rvars, cvars, wvars, svars, avars, ovars, qvars>>

\* top of the loop: elapsed > max_duration, close_trade and return
MtMaxDuration ==
  /\ mt_pc = "loop"
  /\ mt_elapsed > MaxDurationTicks
  /\ mt_pc' = "done"
  /\ mt_result' = "max_duration"
  /\ UNCHANGED <<mt_rm, mt_elapsed, mt_last, mt_ping>>
  /\ UNCHANGED <<mvars, lvars, rvars, cvars, wvars, svars, avars, ovars, qvars>>

\* top of the loop: get_trade_status sends its request and awaits recv()
MtSendPoll ==
  /\ mt_pc = "loop"
  /\ mt_elapsed <= MaxDurationTicks
  /\ mt_pc' = "polling"
  /\ UNCHANGED <<mt_rm, mt_elapsed, mt_last, mt_result, mt_ping>>
  /\ UNCHANGED <<mvars, lvars, rvars, cvars, wvars, svars, avars, ovars, qvars>>

\* the broker answers with an error or something else than the contract:
\* get_trade_status returns None, sleep one interval and continue
MtPollFails ==
  /\ mt_pc = "polling"
  /\ mt_elapsed' = mt_elapsed + 1
  /\ mt_pc' = "loop"
  /\ UNCHANGED <<mt_rm, mt_last, mt_result, mt_ping>>
  /\ UNCHANGED <<mvars, lvars, rvars, cvars, wvars, svars, avars, ovars, qvars>>

\* the broker answers with the contract's status
MtPollOk(profit, is_sold, stagnation, trailing, breakeven) ==
  /\ mt_pc = "polling"
  /\ LET check == ShouldCloseTrade(mt_rm, profit)
     IN /\ mt_last' = [evaluated |-> TRUE, profit |-> profit,
                       stagnation |-> stagnation, trailing |-> trailing,
                       breakeven |-> breakeven,
                       should_close |-> check.should_close,
                       reason |-> check.reason]
        /\ IF check.should_close
           THEN /\ mt_pc' = "done"
                /\ mt_result' = "exit_rule"
                /\ UNCHANGED mt_elapsed
           ELSE IF is_sold
           THEN /\ mt_pc' = "done"
                /\ mt_result' = "settled"
                /\ UNCHANGED mt_elapsed
           ELSE /\ mt_pc' = "loop"
                /\ mt_elapsed' = mt_elapsed + 1
                /\ UNCHANGED mt_result
  /\ UNCHANGED <<mt_rm, mt_ping>>
  /\ UNCHANGED <<mvars, lvars, rvars, cvars, wvars, svars, avars, ovars, qvars>>

\* the connection is kept alive (ping_interval, ping_timeout): the broker
\* answers a ping, recv() of the pending request does not return
MtKeepalive ==
  /\ mt_pc = "polling"
  /\ mt_ping' = 1 - mt_ping
  /\ UNCHANGED <<mt_pc, mt_rm, mt_elapsed, mt_last, mt_result>>
  /\ UNCHANGED <<mvars, lvars, rvars, cvars, wvars, svars, avars, ovars, qvars>>

\* the steps monitor_trade takes without an answer of the broker
MtProgram == MtSendPoll \/ MtMaxDuration

TNext ==
  \/ \E c \in Contracts, daily \in DailyPnls : MtStart(c, daily)
  \/ MtMaxDuration
  \/ MtSendPoll
  \/ MtPollFails
  \/ MtKeepalive
  \/ \E profit \in ProfitTenths, is_sold \in BOOLEAN, stagnation \in BOOLEAN,
        trailing \in BOOLEAN, breakeven \in BOOLEAN :
       MtPollOk(profit, is_sold, stagnation, trailing, breakeven)

\* the event loop runs monitor_trade whenever it is ready and the
\* connection's keepalive task pings on; nothing makes the broker answer
\* the status request
SpecMonitor ==
  /\ MInit
  /\ [][TNext]_vars
  /\ WF_vars(MtProgram)
  /\ WF_vars(MtKeepalive)

\* ------------------------------------ Rise/Fall settlement of a contract ----
\* rf_bot._process_symbol, steps 4-6, and RFTradeEngine.wait_for_result:
\* one contract is bought, its open is recorded, wait_for_result reads the
\* websocket until it returns a settlement or None, and the close is handed
\* to record_trade_closed.  _process_symbol calls wait_for_result without a
\* stake, so both early-sell thresholds are 0 and a message of a contract
\* that is still open is passed over.

Prices == 0..MaxPrice
Stakes == 1..MaxStake

\* wait_for_result: status = "win" if profit > 0 else "loss"
StatusOfProfit(profit) ==
  IF profit > 0 THEN "win" ELSE "loss"

\* what wait_for_result returns when it cannot tell the outcome: None
Unknown(why) ==
  [kind |-> "unknown", why |-> why, from |-> NoContract,
   is_sold |-> FALSE, is_expired |-> FALSE,
   profit |-> 0, status |-> "none", sell_price |-> 0,
   closure_type |-> "absent"]

\* the loop goes on to its next recv()
PassOver ==
  /\ ws_seen' = IF ws_seen < MaxMsgs THEN ws_seen + 1 ELSE ws_seen
  /\ ws_parity' = 1 - ws_parity

\* run(): components connected, _running = True, the first cycle begins
WsRun ==
  /\ ws_pc = "off"
  /\ ws_running' = TRUE
  /\ ws_pc' = "none"
  /\ UNCHANGED <<ws_tracked, ws_stake, ws_arg, ws_sell_reason, ws_seen, ws_parity,
                 ws_result, ws_closed>>
  /\ UNCHANGED <<mvars, lvars, rvars, cvars, tvars, svars, avars, ovars, qvars>>

\* stop(): _running = False
WsStop ==
  /\ ws_running
  /\ ws_running' = FALSE
  /\ UNCHANGED <<ws_pc, ws_tracked, ws_stake, ws_arg, ws_sell_reason, ws_seen,
                 ws_parity, ws_result, ws_closed>>
  /\ UNCHANGED <<mvars, lvars, rvars, cvars, tvars, svars, avars, ovars, qvars>>

\* buy_rise_fall succeeds, record_trade_open, wait_for_result(contract_id)
WsWatch(c, stake) ==
  /\ ws_pc = "none"
  /\ ws_pc' = "watching"
  /\ ws_tracked' = c
  /\ ws_stake' = stake
  /\ ws_arg' = 0
  /\ UNCHANGED <<ws_sell_reason, ws_seen, ws_parity, ws_running, ws_result, ws_closed>>
  /\ UNCHANGED <<mvars, lvars, rvars, cvars, tvars, svars, avars, ovars, qvars>>

\* wait_for_result(contract_id, stake) called on the engine directly, with
\* the stake that arms the take-profit and stop-loss thresholds
WsWatchWithStake(c, stake) ==
  /\ ws_pc = "none"
  /\ ws_pc' = "watching"
  /\ ws_tracked' = c
  /\ ws_stake' = stake
  /\ ws_arg' = stake
  /\ UNCHANGED <<ws_sell_reason, ws_seen, ws_parity, ws_running, ws_result, ws_closed>>
  /\ UNCHANGED <<mvars, lvars, rvars, cvars, tvars, svars, avars, ovars, qvars>>

\* ensure_connected() fails before the subscription is sent
WsNotConnected ==
  /\ ws_pc = "watching" /\ ws_seen = 0
  /\ ws_result' = Unknown("not_connected")
  /\ ws_pc' = "returned"
  /\ UNCHANGED <<ws_tracked, ws_stake, ws_arg, ws_sell_reason, ws_seen, ws_parity,
                 ws_running, ws_closed>>
  /\ UNCHANGED <<mvars, lvars, rvars, cvars, tvars, svars, avars, ovars, qvars>>

\* recv() runs into the 600 s timeout, or send / recv / json raise
WsRecvFails(why) ==
  /\ ws_pc = "watching"
  /\ ws_result' = Unknown(why)
  /\ ws_pc' = "returned"
  /\ UNCHANGED <<ws_tracked, ws_stake, ws_arg, ws_sell_reason, ws_seen, ws_parity,
                 ws_running, ws_closed>>
  /\ UNCHANGED <<mvars, lvars, rvars, cvars, tvars, svars, avars, ovars, qvars>>

\* a message with an "error" field
WsErrorMsg ==
  /\ ws_pc = "watching"
  /\ ws_result' = Unknown("error")
  /\ ws_pc' = "returned"
  /\ UNCHANGED <<ws_tracked, ws_stake, ws_arg, ws_sell_reason, ws_seen, ws_parity,
                 ws_running, ws_closed>>
  /\ UNCHANGED <<mvars, lvars, rvars, cvars, tvars, svars, avars, ovars, qvars>>

\* a message without proposal_open_contract: continue
WsNotPoc ==
  /\ ws_pc = "watching"
  /\ PassOver
  /\ UNCHANGED <<ws_pc, ws_tracked, ws_stake, ws_arg, ws_sell_reason,
                 ws_running, ws_result, ws_closed>>
  /\ UNCHANGED <<mvars, lvars, rvars, cvars, tvars, svars, avars, ovars, qvars>>

\* a proposal_open_contract of contract c, neither sold nor expired, that
\* triggers no sell: no threshold is armed or reached, or already_sold
WsStillOpen(c) ==
  /\ ws_pc = "watching"
  /\ PassOver
  /\ UNCHANGED <<ws_pc, ws_tracked, ws_stake, ws_arg, ws_sell_reason,
                 ws_running, ws_result, ws_closed>>
  /\ UNCHANGED <<mvars, lvars, rvars, cvars, tvars, svars, avars, ovars, qvars>>

\* a proposal_open_contract of contract c, still open, whose unrealised
\* profit reaches the take-profit ("tp") or stop-loss ("sl") threshold:
\* _sell_with_retry sells the tracked contract, and succeeds or not
WsThresholdHit(c, reason, sold) ==
  /\ ws_pc = "watching"
  /\ ws_arg > 0
  /\ ws_sell_reason = "none"
  /\ ws_sell_reason' = IF sold THEN reason ELSE "none"
  /\ PassOver
  /\ UNCHANGED <<ws_pc, ws_tracked, ws_stake, ws_arg, ws_running, ws_result,
                 ws_closed>>
  /\ UNCHANGED <<mvars, lvars, rvars, cvars, tvars, svars, avars, ovars, qvars>>

\* a proposal_open_contract of contract c with is_sold or is_expired
WsSettled(c, is_sold, is_expired, sell_price, buy_price) ==
  /\ ws_pc = "watching"
  /\ is_sold \/ is_expired
  /\ LET profit == sell_price - buy_price
     IN ws_result' = [kind |-> "settled", why |-> "message", from |-> c,
                      is_sold |-> is_sold, is_expired |-> is_expired,
                      profit |-> profit, status |-> StatusOfProfit(profit),
                      sell_price |-> sell_price,
                      closure_type |-> "absent"]
  /\ ws_pc' = "returned"
  /\ UNCHANGED <<ws_tracked, ws_stake, ws_arg, ws_sell_reason, ws_seen, ws_parity,
                 ws_running, ws_closed>>
  /\ UNCHANGED <<mvars, lvars, rvars, cvars, tvars, svars, avars, ovars, qvars>>

\* _process_symbol hands the close to record_trade_closed
WsRecordClosed ==
  /\ ws_pc = "returned"
  /\ ws_arg = 0
  /\ ws_closed' =
       IF ws_result.kind = "settled"
       THEN [contract_id |-> ws_tracked, profit |-> ws_result.profit,
             status |-> ws_result.status, closure_type |-> "absent"]
       ELSE [contract_id |-> ws_tracked, profit |-> -ws_stake,
             status |-> "loss", closure_type |-> "absent"]
  /\ ws_pc' = "recorded"
  /\ UNCHANGED <<ws_tracked, ws_stake, ws_arg, ws_sell_reason, ws_seen, ws_parity,
                 ws_running, ws_result>>
  /\ UNCHANGED <<mvars, lvars, rvars, cvars, tvars, svars, avars, ovars, qvars>>

\* the cycle ends: while _running goes round again or leaves through finally
WsCycleEnd ==
  /\ ws_pc = "recorded"
  /\ ws_pc' = IF ws_running THEN "none" ELSE "stopped"
  /\ ws_running' = ws_running
  /\ ws_tracked' = NoContract
  /\ ws_stake' = 0
  /\ ws_arg' = 0
  /\ ws_sell_reason' = "none"
  /\ ws_seen' = 0
  /\ ws_parity' = 0
  /\ ws_result' = NoResult
  /\ ws_closed' = NoClose
  /\ UNCHANGED <<mvars, lvars, rvars, cvars, tvars, svars, avars, ovars, qvars>>

\* one iteration of wait_for_result's loop, whatever recv() brings
WsIteration ==
  \/ \E why \in {"timeout", "exception"} : WsRecvFails(why)
  \/ WsErrorMsg
  \/ WsNotPoc
  \/ \E c \in Contracts : WsStillOpen(c)
  \/ \E c \in Contracts, reason \in {"tp", "sl"}, sold \in BOOLEAN :
       WsThresholdHit(c, reason, sold)
  \/ \E c \in Contracts, is_sold \in BOOLEAN, is_expired \in BOOLEAN,
        sell_price \in Prices, buy_price \in Prices :
       WsSettled(c, is_sold, is_expired, sell_price, buy_price)

WNext ==
  \/ WsRun
  \/ WsStop
  \/ \E c \in Contracts, stake \in Stakes : WsWatch(c, stake)
  \/ \E c \in Contracts, stake \in Stakes : WsWatchWithStake(c, stake)
  \/ WsNotConnected
  \/ WsIteration
  \/ WsRecordClosed
  \/ WsCycleEnd

SpecSettle == MInit /\ [][WNext]_vars

\* the event loop resumes a coroutine whose recv() has a message or has
\* timed out, and runs a coroutine that is ready
SpecStop ==
  /\ MInit
  /\ [][WNext]_vars
  /\ WF_vars(WsIteration)
  /\ WF_vars(WsNotConnected)
  /\ WF_vars(WsRecordClosed)
  /\ WF_vars(WsCycleEnd)

\* ------------------------------------------- Rise/Fall lifecycle ----

\* history bookkeeping of a step that takes the ledger from r to r2
Released(r, r2) == r.locked /\ ~r2.locked

RelAfter(r, r2) ==
  IF Released(r, r2) /\ rf_owner # NoProc
  THEN [rf_rel EXCEPT ![rf_owner] = @ + 1]
  ELSE rf_rel

OwnerAfter(r, r2) == IF Released(r, r2) THEN NoProc ELSE rf_owner

LastReleaseAfter(r, r2, who) == IF Released(r, r2) THEN who ELSE rf_last_release

LastClearAfter(r, r2, who) == IF r.halted /\ ~r2.halted THEN who ELSE rf_last_clear

\* what save_trade does on each attempt: returns True, returns False, raises
SaveOutcomes == [1..MaxDbRetries -> {"ok", "false", "raise"}]

\* every configured attempt is made, whatever the earlier ones returned
WriteTradeToDbKeepsTrying(outcomes) ==
  [attempts |-> MaxDbRetries,
   success |-> \E i \in 1..MaxDbRetries : outcomes[i] = "ok"]

\* the attempts before the first save_trade that returns True
FailedBeforeOk(outcomes) ==
  {i \in 1..Len(outcomes) : \A j \in 1..i : outcomes[j] # "ok"}

RECURSIVE WriteAttempt(_, _)
WriteAttempt(outcomes, n) ==
  IF n > MaxDbRetries
  THEN [attempts |-> MaxDbRetries, success |-> FALSE]
  ELSE IF outcomes[n] = "ok"
  THEN [attempts |-> n, success |-> TRUE]
  ELSE WriteAttempt(outcomes, n + 1)

\* _write_trade_to_db_with_retry: attempts 1..max, True at the first
\* save_trade that returns True, False when every attempt failed or raised
WriteTradeToDbWithRetry(outcomes) == WriteAttempt(outcomes, 1)

RfResting(p) == rf_pc[p] \in {"idle", "denied"}

InTry(p) == rf_pc[p] \in {"locked", "bought", "tracked", "closed"}

\* _process_symbol: the gate, then data and analysis; no signal ends the cycle
RfGate(p) ==
  /\ RfResting(p)
  /\ \E signal \in BOOLEAN :
       rf_pc' = [rf_pc EXCEPT ![p] = IF RfCanTrade(rf) /\ signal THEN "gated" ELSE "idle"]
  /\ rf_acq' = [rf_acq EXCEPT ![p] = FALSE]
  /\ rf_rel' = [rf_rel EXCEPT ![p] = 0]
  /\ UNCHANGED <<rf, rf_next_cid, rf_cid, rf_owner, rf_last_release, rf_last_clear>>
  /\ UNCHANGED <<mvars, lvars, cvars, wvars, tvars, svars, avars, ovars, qvars>>
  /\ UNCHANGED rf_db
  /\ rf_refused' = [rf_refused EXCEPT ![p] = FALSE]

\* step 1: acquire_trade_lock(symbol, "pending")
RfAcquire(p) ==
  /\ rf_pc[p] = "gated"
  /\ rf' = AcquireTradeLock(rf, now)
  /\ IF ~rf.locked /\ rf'.locked
     THEN /\ rf_pc' = [rf_pc EXCEPT ![p] = "locked"]
          /\ rf_acq' = [rf_acq EXCEPT ![p] = TRUE]
          /\ rf_owner' = p
     ELSE /\ rf_pc' = [rf_pc EXCEPT ![p] = IF rf.locked THEN "idle" ELSE "denied"]
          /\ UNCHANGED <<rf_acq, rf_owner>>
  /\ UNCHANGED <<rf_next_cid, rf_cid, rf_rel, rf_last_release, rf_last_clear>>
  /\ UNCHANGED <<mvars, lvars, cvars, wvars, tvars, svars, avars, ovars, qvars>>
  /\ UNCHANGED rf_db
  /\ rf_refused' = [rf_refused EXCEPT ![p] = rf.locked]

\* step 2: buy_rise_fall succeeds
RfBuy(p) ==
  /\ rf_pc[p] = "locked"
  /\ rf_next_cid <= MaxContracts
  /\ rf_cid' = [rf_cid EXCEPT ![p] = rf_next_cid]
  /\ rf_next_cid' = rf_next_cid + 1
  /\ rf_pc' = [rf_pc EXCEPT ![p] = "bought"]
  /\ UNCHANGED <<rf, rf_owner, rf_acq, rf_rel, rf_last_release, rf_last_clear>>
  /\ UNCHANGED <<mvars, lvars, cvars, wvars, tvars, svars, avars, ovars, qvars>>
  /\ UNCHANGED <<rf_db, rf_refused>>

\* step 2: buy_rise_fall returns nothing; the cycle ends through finally
RfBuyFails(p) ==
  /\ rf_pc[p] = "locked"
  /\ rf_pc' = [rf_pc EXCEPT ![p] = "cleanup"]
  /\ UNCHANGED <<rf, rf_next_cid, rf_cid, rf_owner, rf_acq, rf_rel,
                 rf_last_release, rf_last_clear>>
  /\ UNCHANGED <<mvars, lvars, cvars, wvars, tvars, svars, avars, ovars, qvars>>
  /\ UNCHANGED <<rf_db, rf_refused>>

\* step 3: record_trade_open; a rejected duplicate ends the cycle
RfRecordOpen(p) ==
  /\ rf_pc[p] = "bought"
  /\ rf' = RfRecordTradeOpen(rf, rf_cid[p])
  /\ rf_pc' = [rf_pc EXCEPT ![p] = IF rf_cid[p] \in rf'.active /\ rf_cid[p] \notin rf.active
                                   THEN "tracked" ELSE "cleanup"]
  /\ rf_rel' = RelAfter(rf, rf')
  /\ rf_owner' = OwnerAfter(rf, rf')
  /\ rf_last_release' = LastReleaseAfter(rf, rf', "duplicate_guard")
  /\ UNCHANGED <<rf_next_cid, rf_cid, rf_acq, rf_last_clear>>
  /\ UNCHANGED <<mvars, lvars, cvars, wvars, tvars, svars, avars, ovars, qvars>>
  /\ UNCHANGED <<rf_db, rf_refused>>

\* step 4: wait_for_result settles (an unknown settlement counts as a loss)
\* and record_trade_closed removes the trade
RfSettle(p) ==
  /\ rf_pc[p] = "tracked"
  /\ rf' = RfRecordTradeClosed(rf, rf_cid[p])
  /\ rf_pc' = [rf_pc EXCEPT ![p] = "closed"]
  /\ UNCHANGED <<rf_next_cid, rf_cid, rf_owner, rf_acq, rf_rel,
                 rf_last_release, rf_last_clear>>
  /\ UNCHANGED <<mvars, lvars, cvars, wvars, tvars, svars, avars, ovars, qvars>>
  /\ UNCHANGED <<rf_db, rf_refused>>

\* step 5: _write_trade_to_db_with_retry; its outcome never blocks the release
RfDbWrite(p) ==
  /\ rf_pc[p] = "closed"
  /\ \E outcomes \in SaveOutcomes :
       rf_db' = [rf_db EXCEPT ![p] =
                   [written |-> TRUE,
                    failed |-> Cardinality(FailedBeforeOk(outcomes)),
                    attempts |-> WriteTradeToDbWithRetry(outcomes).attempts,
                    success |-> WriteTradeToDbWithRetry(outcomes).success]]
  /\ rf_pc' = [rf_pc EXCEPT ![p] = "cleanup"]
  /\ UNCHANGED <<rf, rf_next_cid, rf_cid, rf_owner, rf_acq, rf_rel,
                 rf_last_release, rf_last_clear, rf_refused>>
  /\ UNCHANGED <<mvars, lvars, cvars, wvars, tvars, svars, avars, ovars, qvars>>

\* an exception inside the try block: halted as a lifecycle error
RfCrash(p) ==
  /\ InTry(p)
  /\ rf' = Halt(rf, "lifecycle_error")
  /\ rf_pc' = [rf_pc EXCEPT ![p] = "cleanup"]
  /\ UNCHANGED <<rf_next_cid, rf_cid, rf_owner, rf_acq, rf_rel,
                 rf_last_release, rf_last_clear>>
  /\ UNCHANGED <<mvars, lvars, cvars, wvars, tvars, svars, avars, ovars, qvars>>
  /\ UNCHANGED <<rf_db, rf_refused>>

\* the task is cancelled at an await inside the try block
RfCancel(p) ==
  /\ InTry(p)
  /\ rf_pc' = [rf_pc EXCEPT ![p] = "cleanup"]
  /\ UNCHANGED <<rf, rf_next_cid, rf_cid, rf_owner, rf_acq, rf_rel,
                 rf_last_release, rf_last_clear>>
  /\ UNCHANGED <<mvars, lvars, cvars, wvars, tvars, svars, avars, ovars, qvars>>
  /\ UNCHANGED <<rf_db, rf_refused>>

\* step 6, the finally block
RfFinally(p) ==
  /\ rf_pc[p] = "cleanup"
  /\ rf' = LifecycleCleanup(rf)
  /\ rf_pc' = [rf_pc EXCEPT ![p] = "idle"]
  /\ rf_cid' = [rf_cid EXCEPT ![p] = NoContract]
  /\ rf_rel' = RelAfter(rf, rf')
  /\ rf_owner' = OwnerAfter(rf, rf')
  /\ rf_last_release' = LastReleaseAfter(rf, rf', "lifecycle")
  /\ rf_last_clear' = LastClearAfter(rf, rf', "cleanup")
  /\ rf_db' = [rf_db EXCEPT ![p] = NoWrite]
  /\ UNCHANGED <<rf_next_cid, rf_acq, rf_refused>>
  /\ UNCHANGED <<mvars, lvars, cvars, wvars, tvars, svars, avars, ovars, qvars>>

\* the watchdog finds the lock stuck
Watchdog ==
  /\ WatchdogDue(rf, now)
  /\ rf' = WatchdogCheck(rf, now)
  /\ rf_rel' = RelAfter(rf, rf')
  /\ rf_owner' = OwnerAfter(rf, rf')
  /\ rf_last_release' = LastReleaseAfter(rf, rf', "watchdog")
  /\ rf_last_clear' = LastClearAfter(rf, rf', "watchdog")
  /\ UNCHANGED <<rf_next_cid, rf_pc, rf_cid, rf_acq>>
  /\ UNCHANGED <<mvars, lvars, cvars, wvars, tvars, svars, avars, ovars, qvars>>
  /\ UNCHANGED <<rf_db, rf_refused>>

\* the operator clears the halt
OperatorClearHalt ==
  /\ rf.halted
  /\ rf' = ClearHalt(rf)
  /\ rf_last_clear' = "operator"
  /\ UNCHANGED <<rf_next_cid, rf_pc, rf_cid, rf_owner, rf_acq, rf_rel, rf_last_release>>
  /\ UNCHANGED <<mvars, lvars, cvars, wvars, tvars, svars, avars, ovars, qvars>>
  /\ UNCHANGED <<rf_db, rf_refused>>

RNext ==
  \/ Tick
  \/ \E p \in Procs : RfGate(p)
  \/ \E p \in Procs : RfAcquire(p)
  \/ \E p \in Procs : RfBuy(p)
  \/ \E p \in Procs : RfBuyFails(p)
  \/ \E p \in Procs : RfRecordOpen(p)
  \/ \E p \in Procs : RfSettle(p)
  \/ \E p \in Procs : RfDbWrite(p)
  \/ \E p \in Procs : RfCrash(p)
  \/ \E p \in Procs : RfCancel(p)
  \/ \E p \in Procs : RfFinally(p)
  \/ Watchdog
  \/ OperatorClearHalt

SpecRF == MInit /\ [][RNext]_vars

\* ----------------------------------------------- claims, Part I ----

RECURSIVE SumPnl(_)
SumPnl(tt) == IF tt = <<>> THEN 0 ELSE tt[1].pnl + SumPnl(Tail(tt))

\* the losing closes of a history of losing closes and daily resets
RECURSIVE LosingStreak(_)
LosingStreak(h) ==
  IF h = <<>> THEN 0
  ELSE (IF h[Len(h)] = "L" THEN 1 ELSE 0) + LosingStreak(SubSeq(h, 1, Len(h) - 1))

\* the losing closes after the last daily reset of such a history
RECURSIVE LossesSinceReset(_)
LossesSinceReset(h) ==
  IF h = <<>> THEN 0
  ELSE IF h[Len(h)] = "R" THEN 0
  ELSE 1 + LossesSinceReset(SubSeq(h, 1, Len(h) - 1))

\* contracts with a record still "open" that no lifecycle holds any more
Abandoned ==
  {c \in Contracts :
     /\ FindTrade(rm, c) # 0
     /\ rm.trades_today[FindTrade(rm, c)].status = "open"
     /\ \A p \in Procs : cid[p] # c}

C3_NoLostPosition == \A c \in Abandoned : c \in OpenPositions(rm)

\* C4: open_trade gives up only when the last of its max_retries attempts
\* has failed, and the lifecycle then ends in failure with the ledger
\* untouched (no position recorded), no contract held, and the slot not held
\* on behalf of the failed lifecycle.
C4_FailedOpenLeavesNothing ==
  [][\A p \in Procs :
       (pc[p] = "open" /\ pc'[p] # "open" /\ cid'[p] = NoContract) =>
          /\ attempt[p] = max_retries - 1
          /\ pc'[p] = "open_failed"
          /\ rm' = rm
          /\ \A c \in OpenPositions(rm') :
               \E q \in Procs \ {p} : pc'[q] = "monitor" /\ cid'[q] = c]_vars

\* C4 witness: a lifecycle gave up after its last attempt; nothing was ever
\* bought or recorded.
C4_Witness ==
  \E p \in Procs :
    /\ pc[p] = "open_failed"
    /\ next_cid = 1 /\ rm.trades_today = <<>> /\ ~rm.has_active_trade

\* C5 (as claimed), for the ledger (which has no halt flag to set and no
\* lock of its own): recording a trade-open for a contract_id already in
\* open_positions adds no record and overwrites no entry.
C5_DuplicateOpenRejected ==
  [][\A c \in Contracts :
       (/\ ncalls' = ncalls + 1
        /\ last_call' = [op |-> "record_trade_open", contract |-> c]
        /\ c \in OpenPositions(rm))
       => /\ rm'.trades_today = rm.trades_today
          /\ OpenPositions(rm') = OpenPositions(rm)]_vars

\* C9 (as claimed): at all times daily_pnl is the sum of the pnl of the
\* records of trades_today.
C9_DailyPnlIsSum == rm.daily_pnl = SumPnl(rm.trades_today)

\* C10 (as claimed): consecutive_losses is the length of the most recent
\* unbroken losing streak of closes (the losing closes since the last win).
C10_StreakOfCloses == rm.consecutive_losses = LosingStreak(since_win)

\* C10 (amended): consecutive_losses is the number of losing closes since
\* the most recent winning close or daily reset; a breakeven close leaves
\* it unchanged.
C10_StreakSinceWinOrReset == rm.consecutive_losses = LossesSinceReset(since_win)

\* C10 witness: a loss, a daily reset, then another loss with no win between.
C10_Witness ==
  /\ rm.consecutive_losses = 1
  /\ \E i, j, k \in 1..Len(since_win) :
       /\ i < j /\ j < k
       /\ since_win[i] = "L" /\ since_win[j] = "R" /\ since_win[k] = "L"

\* C11: a lifecycle reaches the broker's open only out of a gate check of
\* its own cycle in which can_trade allowed, and the broker issues a contract
\* only to a lifecycle that got there; while can_trade denies, a cycle that
\* starts ends at rest again, with the ledger and the broker untouched.
C11_GateBeforeOpen ==
  [][/\ \A p \in Procs :
          (pc[p] # "open" /\ pc'[p] = "open") => (Resting(p) /\ CanTrade(rm, now))
     /\ next_cid' # next_cid =>
          \E p \in Procs : pc[p] = "open" /\ pc'[p] = "bought" /\ cid'[p] = next_cid
     /\ \A p \in Procs :
          (Resting(p) /\ ~CanTrade(rm, now) /\ pc'[p] # pc[p]) =>
             /\ pc'[p] = "idle"
             /\ rm' = rm
             /\ next_cid' = next_cid /\ cid' = cid]_vars

\* C11 witness: one lifecycle was allowed through the gate and has made a
\* request to the broker, while another is at rest with can_trade denying
\* and no position open.
C11_Witness ==
  \E p, q \in Procs :
    /\ pc[p] = "open" /\ attempt[p] > 0
    /\ Resting(q)
    /\ ~CanTrade(rm, now) /\ ~rm.has_active_trade

\* the five deny conditions of the entry gate, in the order of the
\* specification, on the ledger as the day-rollover check left it
DenyConditions(r, t) ==
  << Cardinality(OpenPositions(r)) >= 1,
     r.consecutive_losses >= max_consecutive_losses,
     Len(r.trades_today) >= MaxTradesPerDay,
     r.daily_pnl <= -MaxDailyLoss,
     r.last_trade_time # NoTime /\ t - r.last_trade_time < CooldownTicks >>

DenyReasons ==
  <<"active_trade", "circuit_breaker", "daily_trade_limit", "daily_loss_limit", "cooldown">>

BreakerTripped(r) == r.consecutive_losses >= max_consecutive_losses

\* C13: in the account's trading loop, once consecutive_losses has reached
\* max_consecutive_losses, can_trade denies on the circuit breaker for the
\* rest of the day, and every step either is the day-rollover reset or
\* leaves the counter no lower, starts no lifecycle, buys no contract and
\* records no position.
C13_BreakerHolds ==
  [][BreakerTripped(rm) =>
       /\ Date(now) = rm.current_date =>
            /\ ~CanTrade(rm, now)
            /\ ~rm.has_active_trade => CanTradeReason(rm, now) = "circuit_breaker"
       /\ \/ /\ Date(now) # rm.current_date
             /\ rm' = ResetDailyStats(rm, now)
          \/ /\ rm'.consecutive_losses >= rm.consecutive_losses
             /\ next_cid' = next_cid
             /\ rm'.trades_today = rm.trades_today
             /\ OpenPositions(rm') = {}
             /\ \A p \in MainLoop : pc'[p] \in {"idle", "open_failed"}]_vars

\* C13 witness: three losing closes in a row on one day have tripped the
\* breaker, and the loop is at rest.
C13_Witness ==
  /\ BreakerTripped(rm)
  /\ Date(now) = rm.current_date
  /\ Len(rm.trades_today) = max_consecutive_losses
  /\ \A i \in 1..Len(rm.trades_today) : rm.trades_today[i].status = "lost"
  /\ \A p \in MainLoop : pc[p] = "idle"

\* a deny condition that can_trade tests before the cooldown holds
EarlierDeny(r) ==
  \/ r.has_active_trade
  \/ r.consecutive_losses >= max_consecutive_losses
  \/ Len(r.trades_today) >= MaxTradesPerDay
  \/ r.daily_pnl <= -MaxDailyLoss

C15_RolloverBeforeLimits ==
  [][/\ rm'.current_date # rm.current_date =>
          /\ rm'.current_date = Date(now)
          /\ rm'.trades_today = <<>> /\ rm'.daily_pnl = 0
          /\ rm'.consecutive_losses = 0
     /\ Date(now) # rm.current_date =>
          (CanTrade(rm, now) <=> CanTradeReason(ResetDailyStats(rm, now), now) = "OK")
     /\ \A p \in Procs :
          (Resting(p) /\ pc'[p] = "open") =>
             /\ rm'.current_date = Date(now)
             /\ CanTradeReason(rm', now) = "OK"]_vars

\* C15 witness: a gate check on a new day reset a ledger whose daily trade
\* cap had been reached, and let the cycle through.
C15_Witness ==
  \E p \in Procs :
    /\ pc[p] = "open"
    /\ rm.current_date > 0 /\ rm.current_date = Date(now)
    /\ rm.trades_today = <<>>
    /\ next_cid > MaxTradesPerDay

C17_CommittedAfterExpiry ==
  cp_pc = "phase2" =>
    /\ ~cp_in_phase
    /\ cp_limits
    /\ cp_phase = "committed"

C19_ForeignMessageDiscarded ==
  ws_result.kind = "settled" => ws_result.from = ws_tracked

\* C20: the status of a settled contract is win iff profit > 0, loss iff
\* profit < 0 and breakeven iff profit = 0.
C20_StatusBySign ==
  ws_result.kind = "settled" =>
    /\ ws_result.status = "win" <=> ws_result.profit > 0
    /\ ws_result.status = "loss" <=> ws_result.profit < 0
    /\ ws_result.status = "breakeven" <=> ws_result.profit = 0

\* the closure classification of a settled contract: target after a
\* successful bot-initiated sell, expiry when the contract ran out, manual
\* when it was sold without expiry and without a sell of the bot
ClosureTypeOf(sell_reason, is_expired) ==
  IF sell_reason # "none" THEN "target"
  ELSE IF is_expired THEN "expiry"
  ELSE "manual"

\* C21: a settled contract is classified manual when it is reported sold
\* without expiry and the bot sold nothing, expiry when it ran to expiry,
\* target when a take-profit or stop-loss sell of the bot succeeded.
C21_ClosureTypeClassified ==
  ws_result.kind = "settled" =>
    ws_result.closure_type = ClosureTypeOf(ws_sell_reason, ws_result.is_expired)

\* ---------------------------------------------- claims, Part II ----

C6_AcquireThenVerify ==
  [][\A p \in Procs :
       (rf_pc[p] = "gated" /\ rf_pc'[p] # "gated" /\ ~rf.locked /\ rf.active # {})
       => /\ ~rf'.locked
          /\ rf_pc'[p] = "denied"
          /\ ~rf_acq'[p]
          /\ rf'.active = rf.active]_vars

\* C6 witness: an acquisition was denied by the post-acquire check; the
\* position stays tracked and the lock is free.
C6_Witness ==
  \E p \in Procs : rf_pc[p] = "denied" /\ rf.active # {} /\ ~rf.locked

C23_StopEndsMonitoring ==
  (ws_pc = "watching" /\ ~ws_running) ~> (ws_pc # "watching")

\* ------------------------------------ multi-tier trailing stop ----
\* The trailing stop of one open position, with percentages of the stake
\* as whole numbers.  A configuration is a list of tiers sorted ascending
\* by trigger_pct.

Tiers == [trigger_pct : 1..MaxPct, trail_pct : 1..MaxTrail]

TierLists ==
  {tl \in UNION {[1..n -> Tiers] : n \in 1..MaxTiers} :
     \A i \in 1..(Len(tl) - 1) : tl[i].trigger_pct < tl[i + 1].trigger_pct}

\* the highest tier whose trigger the profit has reached, 0 if none
TierOf(tiers, profit_pct) ==
  LET reached == {i \in 1..Len(tiers) : tiers[i].trigger_pct <= profit_pct}
  IN IF reached = {} THEN 0
     ELSE CHOOSE i \in reached : \A j \in reached : j <= i

\* the floor follows the current profit instead of the peak
UpdateTrailingStopFromProfit(tiers, trade, profit_pct) ==
  LET new_tier == IF TierOf(tiers, profit_pct) > trade.tier
                  THEN TierOf(tiers, profit_pct) ELSE trade.tier
  IN IF new_tier = 0 THEN trade
     ELSE [trailing_active |-> TRUE, tier |-> new_tier,
           peak_profit_pct |-> IF profit_pct > trade.peak_profit_pct
                               THEN profit_pct ELSE trade.peak_profit_pct,
           trail_stop_profit_pct |-> profit_pct - tiers[new_tier].trail_pct]

\* update_trailing_stop: a tier once activated stays activated; the floor
\* is peak_profit_pct - trail_pct of the active tier, recomputed when the
\* peak has increased
UpdateTrailingStop(tiers, trade, profit_pct) ==
  LET new_tier == IF TierOf(tiers, profit_pct) > trade.tier
                  THEN TierOf(tiers, profit_pct) ELSE trade.tier
  IN IF new_tier = 0 THEN trade
     ELSE IF ~trade.trailing_active \/ profit_pct > trade.peak_profit_pct
     THEN [trailing_active |-> TRUE, tier |-> new_tier,
           peak_profit_pct |-> profit_pct,
           trail_stop_profit_pct |-> profit_pct - tiers[new_tier].trail_pct]
     ELSE trade

\* the exit is checked whether or not trailing has been activated
CheckTrailingProfitAnyTime(trade, profit_pct) ==
  profit_pct <= trade.trail_stop_profit_pct

\* check_trailing_profit: exit once trailing is active and the profit is
\* at or below the floor
CheckTrailingProfit(trade, profit_pct) ==
  trade.trailing_active /\ profit_pct <= trade.trail_stop_profit_pct

\* the lock follows the profit of the tick
UpdateBreakevenFollowsProfit(armed, profit_pct) ==
  profit_pct >= BreakevenTriggerPct

\* update_trailing_stop: breakeven_activated is set when the profit reaches
\* the trigger and is never cleared
UpdateBreakeven(armed, profit_pct) ==
  armed \/ profit_pct >= BreakevenTriggerPct

\* a position is opened under a tier configuration
TsOpen(tiers) ==
  /\ ts_pc = "none"
  /\ ts_pc' = "open"
  /\ ts_tiers' = tiers
  /\ UNCHANGED <<ts_trade, ts_crossed, ts_breakeven, ts_profit>>
  /\ UNCHANGED <<mvars, lvars, rvars, cvars, wvars, tvars, avars, ovars, qvars>>

\* one monitoring tick: update the trailing stop, then close with
\* "trailing_profit_exit" if the profit is at or below the floor
TsTick(profit_pct) ==
  /\ ts_pc = "open"
  /\ LET trade == UpdateTrailingStop(ts_tiers, ts_trade, profit_pct)
     IN /\ ts_trade' = trade
        /\ ts_crossed' = (ts_crossed \/ (ts_trade.tier >= 1 /\ trade.tier > ts_trade.tier))
        /\ ts_pc' = IF CheckTrailingProfit(trade, profit_pct)
                    THEN "closed" ELSE "open"
  /\ ts_breakeven' = UpdateBreakeven(ts_breakeven, profit_pct)
  /\ ts_profit' = profit_pct
  /\ UNCHANGED ts_tiers
  /\ UNCHANGED <<mvars, lvars, rvars, cvars, wvars, tvars, avars, ovars, qvars>>

TsNext ==
  \/ \E tiers \in TierLists : TsOpen(tiers)
  \/ \E profit_pct \in -1..MaxPct : TsTick(profit_pct)

SpecTrail == MInit /\ [][TsNext]_vars

\* ------------------------------------ Rise/Fall bot, several accounts ----
\* rf_bot.run(stake, api_token) is the trading loop of an account and
\* rf_bot.stop() its stop request; both work on the one module-level flag
\* _running.  Each call of run() builds its own strategy, ledger and two
\* broker connections, which live exactly as long as the call.

\* run() up to the loop: components built and connected, _running = True
RfbRun(a, k) ==
  /\ rfb_pc[a][k] = "off"
  /\ rfb_running' = TRUE
  /\ rfb_pc' = [rfb_pc EXCEPT ![a][k] = "head"]
  /\ rfb_actor' = a
  /\ UNCHANGED <<mvars, lvars, rvars, cvars, wvars, tvars, svars, ovars, qvars>>

\* while _running: a cycle starts, or the loop ends and the finally block
\* clears the flag and disconnects
RfbLoopHead(a, k) ==
  /\ rfb_pc[a][k] = "head"
  /\ IF rfb_running
     THEN /\ rfb_pc' = [rfb_pc EXCEPT ![a][k] = "cycle"]
          /\ UNCHANGED rfb_running
     ELSE /\ rfb_pc' = [rfb_pc EXCEPT ![a][k] = "off"]
          /\ rfb_running' = FALSE
  /\ rfb_actor' = a
  /\ UNCHANGED <<mvars, lvars, rvars, cvars, wvars, tvars, svars, ovars, qvars>>

\* the symbols are processed and the scan interval is slept
RfbCycle(a, k) ==
  /\ rfb_pc[a][k] = "cycle"
  /\ rfb_pc' = [rfb_pc EXCEPT ![a][k] = "head"]
  /\ rfb_actor' = a
  /\ UNCHANGED rfb_running
  /\ UNCHANGED <<mvars, lvars, rvars, cvars, wvars, tvars, svars, ovars, qvars>>

\* the task is cancelled inside a cycle: CancelledError, then finally
RfbCancelled(a, k) ==
  /\ rfb_pc[a][k] = "cycle"
  /\ rfb_pc' = [rfb_pc EXCEPT ![a][k] = "off"]
  /\ rfb_running' = FALSE
  /\ rfb_actor' = a
  /\ UNCHANGED <<mvars, lvars, rvars, cvars, wvars, tvars, svars, ovars, qvars>>

\* stop(), requested for account a
RfbStop(a) ==
  /\ rfb_running' = FALSE
  /\ rfb_actor' = a
  /\ UNCHANGED rfb_pc
  /\ UNCHANGED <<mvars, lvars, rvars, cvars, wvars, tvars, svars, ovars, qvars>>

ANext ==
  \/ \E a \in Accounts, k \in Runs : RfbRun(a, k)
  \/ \E a \in Accounts, k \in Runs : RfbLoopHead(a, k)
  \/ \E a \in Accounts, k \in Runs : RfbCycle(a, k)
  \/ \E a \in Accounts, k \in Runs : RfbCancelled(a, k)
  \/ \E a \in Accounts : RfbStop(a)

SpecAccounts == MInit /\ [][ANext]_vars

\* ------------------------------------ open_trade and the broker ----
\* One open_trade invocation at a time: proposal, buy_with_proposal over
\* send_request, and the retries of both.  The broker sells a contract when
\* it accepts a buy request, whether or not its answer is read.

\* open_trade(direction, stake) is called
OtCall ==
  /\ ot_pc \in {"none", "returned", "failed"}
  /\ ot_calls < MaxCalls
  /\ ot_calls' = ot_calls + 1
  /\ ot_pc' = "proposal"
  /\ ot_attempt' = 0
  /\ ot_bought' = 0
  /\ ot_reply' = "none"
  /\ ot_resent' = FALSE
  /\ UNCHANGED <<mvars, lvars, rvars, cvars, wvars, tvars, svars, avars, qvars>>

\* "if attempt < max_retries - 1: continue", else return None
OtRetry ==
  /\ IF OpenExhausted(ot_attempt)
     THEN /\ ot_pc' = "failed"
          /\ UNCHANGED ot_attempt
     ELSE /\ ot_pc' = "proposal"
          /\ ot_attempt' = ot_attempt + 1
  /\ ot_reply' = "none"
  /\ ot_resent' = FALSE

\* get_proposal returns None
OtProposalFails ==
  /\ ot_pc = "proposal"
  /\ OtRetry
  /\ UNCHANGED <<ot_bought, ot_calls>>
  /\ UNCHANGED <<mvars, lvars, rvars, cvars, wvars, tvars, svars, avars, qvars>>

\* get_proposal returns a proposal
OtProposalOk ==
  /\ ot_pc = "proposal"
  /\ ot_pc' = "buy"
  /\ UNCHANGED <<ot_attempt, ot_bought, ot_reply, ot_resent, ot_calls>>
  /\ UNCHANGED <<mvars, lvars, rvars, cvars, wvars, tvars, svars, avars, qvars>>

\* send_request: ws.send(buy); the broker accepts and sells, or refuses
OtBuySend ==
  /\ ot_pc = "buy"
  /\ \E accept \in BOOLEAN :
       /\ ot_bought' = IF accept THEN ot_bought + 1 ELSE ot_bought
       /\ ot_reply' = IF accept THEN "buy" ELSE "error"
  /\ ot_pc' = "recv"
  /\ UNCHANGED <<ot_attempt, ot_resent, ot_calls>>
  /\ UNCHANGED <<mvars, lvars, rvars, cvars, wvars, tvars, svars, avars, qvars>>

\* send_request: recv() returns the broker's answer; open_trade returns the
\* trade, or retries after an error
OtResponse ==
  /\ ot_pc = "recv"
  /\ IF ot_reply = "buy"
     THEN /\ ot_pc' = "returned"
          /\ UNCHANGED <<ot_attempt, ot_reply, ot_resent>>
     ELSE OtRetry
  /\ UNCHANGED <<ot_bought, ot_calls>>
  /\ UNCHANGED <<mvars, lvars, rvars, cvars, wvars, tvars, svars, avars, qvars>>

\* send_request: recv() returns a message that is not the answer ("buy" is
\* not in it): buy_with_proposal returns None
OtOtherMessage ==
  /\ ot_pc = "recv"
  /\ OtRetry
  /\ UNCHANGED <<ot_bought, ot_calls>>
  /\ UNCHANGED <<mvars, lvars, rvars, cvars, wvars, tvars, svars, avars, qvars>>

\* open_trade: an exception after the buy answer was read (its except
\* clause continues with the next attempt)
OtExceptionAfterBuy ==
  /\ ot_pc = "recv"
  /\ ot_reply = "buy"
  /\ OtRetry
  /\ UNCHANGED <<ot_bought, ot_calls>>
  /\ UNCHANGED <<mvars, lvars, rvars, cvars, wvars, tvars, svars, avars, qvars>>

\* send_request: ConnectionClosed while waiting; reconnect and send the
\* request again, once; a failed reconnect or a second failure is an error
OtConnectionClosed ==
  /\ ot_pc = "recv"
  /\ \/ /\ ~ot_resent
        /\ \E accept \in BOOLEAN :
             /\ ot_bought' = IF accept THEN ot_bought + 1 ELSE ot_bought
             /\ ot_reply' = IF accept THEN "buy" ELSE "error"
        /\ ot_resent' = TRUE
        /\ UNCHANGED <<ot_pc, ot_attempt>>
     \/ /\ OtRetry
        /\ UNCHANGED ot_bought
  /\ UNCHANGED ot_calls
  /\ UNCHANGED <<mvars, lvars, rvars, cvars, wvars, tvars, svars, avars, qvars>>

ONext ==
  \/ OtCall
  \/ OtProposalFails
  \/ OtProposalOk
  \/ OtBuySend
  \/ OtResponse
  \/ OtOtherMessage
  \/ OtExceptionAfterBuy
  \/ OtConnectionClosed

SpecOpen == MInit /\ [][ONext]_vars

\* --------------------------- early sell of a Rise/Fall contract ----
\* RFTradeEngine.wait_for_result with a stake, _sell_with_retry,
\* _sell_contract and _send, on the one websocket that also carries the
\* contract's subscription.  A message is its kind and the req_id it
\* echoes (0 for a subscription update).

\* wait_for_result(contract_id, stake): the subscription is sent
SlWatch ==
  /\ sl_pc = "idle"
  /\ sl_pc' = "watching"
  /\ UNCHANGED <<sl_attempt, sl_inbox, sl_req_id, sl_broker_sold,
                 sl_already_sold, sl_resp, sl_sent, sl_late, sl_triggers>>
  /\ UNCHANGED <<mvars, lvars, rvars, cvars, wvars, tvars, svars, avars, ovars>>

\* the broker pushes an update of the subscribed contract
SlStream ==
  /\ sl_pc \in {"watching", "sending", "receiving"}
  /\ Len(sl_inbox) < MaxInbox
  /\ sl_inbox' = Append(sl_inbox,
                        [kind |-> IF sl_broker_sold THEN "poc_sold" ELSE "poc",
                         req_id |-> 0])
  /\ UNCHANGED <<sl_pc, sl_attempt, sl_req_id, sl_broker_sold,
                 sl_already_sold, sl_resp, sl_sent, sl_late, sl_triggers>>
  /\ UNCHANGED <<mvars, lvars, rvars, cvars, wvars, tvars, svars, avars, ovars>>

\* one iteration of wait_for_result's loop: recv(), then the checks; hit
\* says whether the update's unrealised profit reaches a threshold
SlWaitRecv(hit) ==
  /\ sl_pc = "watching"
  /\ sl_inbox # <<>>
  /\ sl_inbox' = Tail(sl_inbox)
  /\ LET m == Head(sl_inbox)
     IN IF m.kind \in {"error", "poc_sold"}
        THEN /\ sl_pc' = "returned"
             /\ UNCHANGED <<sl_attempt, sl_sent, sl_triggers>>
        ELSE IF m.kind = "poc" /\ ~sl_already_sold /\ hit
                /\ sl_triggers < MaxTriggers
        THEN /\ sl_pc' = "sending"
             /\ sl_attempt' = 1
             /\ sl_sent' = 0
             /\ sl_triggers' = sl_triggers + 1
        ELSE UNCHANGED <<sl_pc, sl_attempt, sl_sent, sl_triggers>>
  /\ UNCHANGED <<sl_req_id, sl_broker_sold, sl_already_sold, sl_resp, sl_late>>
  /\ UNCHANGED <<mvars, lvars, rvars, cvars, wvars, tvars, svars, avars, ovars>>

\* _send: the next req_id, ws.send(sell); the broker accepts the sell of a
\* contract it has not sold yet, or answers with an error
SlSend ==
  /\ sl_pc = "sending"
  /\ sl_req_id' = sl_req_id + 1
  /\ \E ok \in BOOLEAN :
       LET accept == ok /\ ~sl_broker_sold
       IN /\ sl_broker_sold' = (sl_broker_sold \/ accept)
          /\ sl_inbox' = Append(sl_inbox,
                                [kind |-> IF accept THEN "sell" ELSE "error",
                                 req_id |-> sl_req_id'])
  /\ sl_late' = (sl_late \/ sl_broker_sold)
  /\ sl_sent' = sl_sent + 1
  /\ sl_pc' = "receiving"
  /\ UNCHANGED <<sl_attempt, sl_already_sold, sl_resp, sl_triggers>>
  /\ UNCHANGED <<mvars, lvars, rvars, cvars, wvars, tvars, svars, avars, ovars>>

\* _sell_with_retry after a _sell_contract that returned False
SlSellFailed ==
  IF sl_attempt < max_attempts
  THEN /\ sl_pc' = "sending"
       /\ sl_attempt' = sl_attempt + 1
  ELSE /\ sl_pc' = "watching"
       /\ UNCHANGED sl_attempt

\* _send: recv() returns the next message of the socket; _sell_contract
\* is True when "sell" is in it
SlRecv ==
  /\ sl_pc = "receiving"
  /\ sl_inbox # <<>>
  /\ sl_inbox' = Tail(sl_inbox)
  /\ sl_resp' = [req |-> sl_req_id, got |-> Head(sl_inbox)]
  /\ IF Head(sl_inbox).kind = "sell"
     THEN /\ sl_already_sold' = TRUE
          /\ sl_pc' = "watching"
          /\ UNCHANGED sl_attempt
     ELSE /\ SlSellFailed
          /\ UNCHANGED sl_already_sold
  /\ UNCHANGED <<sl_req_id, sl_broker_sold, sl_sent, sl_late, sl_triggers>>
  /\ UNCHANGED <<mvars, lvars, rvars, cvars, wvars, tvars, svars, avars, ovars>>

\* _send: RF_WS_TIMEOUT runs out or send / recv raise; it returns None
SlRecvFails ==
  /\ sl_pc = "receiving"
  /\ SlSellFailed
  /\ UNCHANGED <<sl_inbox, sl_req_id, sl_broker_sold, sl_already_sold,
                 sl_resp, sl_sent, sl_late, sl_triggers>>
  /\ UNCHANGED <<mvars, lvars, rvars, cvars, wvars, tvars, svars, avars, ovars>>

QNext ==
  \/ SlWatch
  \/ SlStream
  \/ \E hit \in BOOLEAN : SlWaitRecv(hit)
  \/ SlSend
  \/ SlRecv
  \/ SlRecvFails

SpecSell == MInit /\ [][QNext]_vars

\* C24: monitoring of an open position always comes to an end.
C24_MonitoringTerminates ==
  (mt_pc \in {"loop", "polling"}) ~> (mt_pc = "done")

\* C28: on a tick whose status puts daily_pnl + unrealized profit at or
\* below -(0.9 * max_daily_loss), a close is triggered, whatever the other
\* exit conditions of the tick are.
C28_EmergencyGuardCloses ==
  (mt_last.evaluated
   /\ 10 * mt_rm.daily_pnl + mt_last.profit <= -(9 * MaxDailyLoss)) =>
    /\ mt_last.should_close
    /\ mt_last.reason = "emergency_daily_loss"
    /\ mt_pc = "done" /\ mt_result = "exit_rule"

C28_Witness ==
  /\ mt_last.evaluated
  /\ 10 * mt_rm.daily_pnl + mt_last.profit = -(9 * MaxDailyLoss)
  /\ mt_rm.daily_pnl < 0
  /\ mt_last.stagnation /\ ~mt_last.trailing
  /\ mt_result = "exit_rule"

\* the reason of the highest-precedence exit rule that fires on a status
FirstExitReason(emergency, stagnation, trailing, breakeven) ==
  IF emergency THEN "emergency_daily_loss"
  ELSE IF stagnation THEN "stagnation_exit"
  ELSE IF trailing THEN "trailing_profit_exit"
  ELSE IF breakeven THEN "breakeven_exit"
  ELSE "none"

\* how many of the four exit rules fire on the last status
RulesFiring ==
  LET emergency ==
        10 * mt_rm.daily_pnl + mt_last.profit <= -(9 * MaxDailyLoss)
      n(b) == IF b THEN 1 ELSE 0
  IN n(emergency) + n(mt_last.stagnation) + n(mt_last.trailing)
       + n(mt_last.breakeven)

\* C29: when several exit rules fire on the same tick, the position is
\* closed and the recorded reason is that of the first in the order
\* emergency guard, stagnation, trailing stop, breakeven.
C29_HighestPrecedenceReason ==
  (mt_last.evaluated /\ RulesFiring >= 2) =>
    /\ mt_last.should_close
    /\ mt_last.reason =
         FirstExitReason(
           10 * mt_rm.daily_pnl + mt_last.profit <= -(9 * MaxDailyLoss),
           mt_last.stagnation, mt_last.trailing, mt_last.breakeven)

\* the floor of the position does not decrease in this step
FloorKept ==
  ts_trade.trailing_active =>
    ts_trade'.trail_stop_profit_pct >= ts_trade.trail_stop_profit_pct

TrailsNotWidening(tiers) ==
  \A i \in 1..(Len(tiers) - 1) : tiers[i + 1].trail_pct <= tiers[i].trail_pct

ActiveLoops(a) == {k \in Runs : rfb_pc[a][k] # "off"}

\* C26: an operation on one account leaves the running flag that the loops
\* of every other account read as it was.
C26_AccountsIsolated ==
  [][\A b \in Accounts :
       (ActiveLoops(b) # {} /\ rfb_actor' # b) => rfb_running' = rfb_running
  ]_vars

\* C27: whatever start and stop requests were made, an account has at most
\* one active trading loop.
C27_OneLoopPerUser ==
  \A a \in Accounts : Cardinality(ActiveLoops(a)) <= 1

\* the lowest trigger_pct of the configuration
FirstTrigger == ts_tiers[1].trigger_pct

C34_SlotClearedOnlyOnTerminal ==
  [][\A p \in Procs :
       (pc[p] = "monitor" /\ cid[p] \in OpenPositions(rm)
        /\ cid[p] \notin OpenPositions(rm')) =>
          /\ FindTrade(rm', cid[p]) # 0
          /\ rm'.trades_today[FindTrade(rm', cid[p])].status # "open"
  ]_vars

\* C35: the broker sells at most one contract to one open_trade invocation.
C35_OneContractPerOpen == ot_bought <= 1

\* C36: a day rollover keeps every open position in the ledger's slot: a
\* step that moves current_date to a new day drops no open position.
C36_RolloverKeepsOpenPositions ==
  [][rm'.current_date # rm.current_date =>
       OpenPositions(rm) \subseteq OpenPositions(rm')]_vars

C38_ResponseMatchesRequest ==
  sl_resp # NoResp => sl_resp.got.req_id = sl_resp.req

\* C39: sell requests of one contract stop at the first accepted sell: a
\* trigger sends at most max_attempts of them and none is sent after the
\* broker accepted one.
C39_SellsStopAtFirstAccepted ==
  /\ sl_sent <= max_attempts
  /\ ~sl_late

\* C40: record_trade_close for a contract that is not open (unknown or
\* closed already) leaves the daily P&L, the loss streak and the active
\* slot as they were.
C40_CloseOfUnknownIsNoOp ==
  [][(/\ ncalls' = ncalls + 1
      /\ last_call'.op = "record_trade_close"
      /\ last_call'.contract \notin OpenPositions(rm)) =>
        /\ rm'.daily_pnl = rm.daily_pnl
        /\ rm'.consecutive_losses = rm.consecutive_losses
        /\ OpenPositions(rm') = OpenPositions(rm)
    ]_vars

====
